---- MODULE Spec2Model ----
(***************************************************************************)
(* Model of the conformance-test harnesses of altova/sec-edgar-tools:      *)
(*   dqc_testsuite.py ("dqc"), efm_testsuite.py ("efm") and                *)
(*   dqc_testsuite_xule_travis.py ("xule").                                *)
(*                                                                         *)
(* Six specifications live in this module.                                 *)
(*   Spec          one run of run_xbrl_testsuite: load the suite, submit   *)
(*                 the selected variations to the thread pool, workers     *)
(*                 run the callbacks, the main thread collects results,    *)
(*                 joins the pool and writes the report.                   *)
(*   SpecClassify  execute_variation as a pure function of a variation     *)
(*                 and of what the validator answered for it.              *)
(*   SpecReport    calc_conformance and the report writers on the results  *)
(*                 of a finished run.                                      *)
(*   SpecHash      cmp_output on a reference document and an output        *)
(*                 document (efm).                                         *)
(*   SpecValidate  validate of dqc_validation.py and of                    *)
(*                 dqc_validation_xule.py under a suppressErrors           *)
(*                 parameter, and the dqc fingerprint of the log.          *)
(*   SpecEscape    xml_escape on a name the xml report writer writes as    *)
(*                 an attribute value.                                     *)
(***************************************************************************)
EXTENDS Integers, Sequences, FiniteSets, TLC

VARIABLES
    harness,      \* which of the three scripts is running
    pc,           \* position of the main thread in run_xbrl_testsuite
    testsuite,    \* testsuite['testcases'][*]['variations'], flattened
    args,         \* parsed command line (filters, max_workers, report files)
    si,           \* index of the next variation of the submit loop
    futures,      \* state of the future of every variation
    results,      \* the results dict of execute_testsuite
    report,       \* what the report writers produced
    cv,           \* SpecClassify: the variation handed to execute_variation;
                  \* SpecHash: the two documents handed to cmp_output
    cres,         \* SpecClassify: what execute_variation did with it;
                  \* SpecHash: the two canonical forms and the answer
    cstored,      \* SpecClassify: the entry the collecting loop stores for it
    cpc           \* "input" | "classified" | "stored" | "row" | "compared" |
                  \* "validated" | "fingerprinted" | "escaped"

vars == <<harness, pc, testsuite, args, si, futures, results, report, cv, cres, cstored, cpc>>

schedVars == <<pc, testsuite, args, si, futures, results, report>>
classVars == <<cv, cres, cstored, cpc>>

Harnesses == {"dqc", "efm", "xule"}

----------------------------------------------------------------------------
(* Bounds of the model.                                                    *)

MaxLog == 2          \* longest validator error log
MaxAsserts == 2      \* most expected asserts (efm) of one variation
MaxCount == 2        \* largest expected count (dqc) of one code
MaxEvals == 2        \* most XULE evaluations produced / expected
MaxVariations == 2   \* most variations of a suite
MaxWorkers == 2      \* largest --workers value
MaxElements == 3     \* most element children of the root of a document
MaxFindings == 2     \* most rule results of one validation
MaxSuppressed == 2   \* most codes of a suppressErrors parameter
MaxChars == 3        \* longest name handed to xml_escape

----------------------------------------------------------------------------
(* collections.Counter: a function from the keys present to positive       *)
(* counts; a missing key reads as 0 and reading never inserts.             *)

EmptyCounter == [k \in {} |-> 0]

CounterGet(c, k) == IF k \in DOMAIN c THEN c[k] ELSE 0

CounterInc(c, k) ==
    [x \in (DOMAIN c) \cup {k} |-> IF x = k THEN CounterGet(c, k) + 1 ELSE c[x]]

\* Counter.__add__: key-wise sum, keeping positive counts only
CounterAdd(a, b) ==
    [x \in {k \in (DOMAIN a) \cup (DOMAIN b) : CounterGet(a, k) + CounterGet(b, k) > 0}
        |-> CounterGet(a, x) + CounterGet(b, x)]

\* ErrorLog.has_errors(): the log holds a diagnostic of severity ERROR
HasErrors(log) == \E i \in DOMAIN log : log[i].severity = "ERROR"

\* what a callback does: it raises, or it returns (status, fingerprint);
\* validated records whether the validator had been invoked by then,
\* compared whether cmp_output had been called
Raise(validated) ==
    [raised |-> TRUE, status |-> "", counts |-> EmptyCounter, validated |-> validated,
     compared |-> FALSE]

Return(status, counts, validated) ==
    [raised |-> FALSE, status |-> status, counts |-> counts, validated |-> validated,
     compared |-> FALSE]

----------------------------------------------------------------------------
(* Diagnostics.  A diagnostic of the error log is                          *)
(*   [severity, kind, code]                                                *)
(* severity: "ERROR" | "WARNING" | "INFO";                                 *)
(* kind: what re_error_code.search(error.text) finds in the text:          *)
(*   "code"  the pattern matches and group 1 holds the code                *)
(*   "bare"  (efm only) the pattern matches "[EFM.] ": group 1 is optional *)
(*           in the efm pattern and is None here                           *)
(*   "none"  the pattern does not match                                    *)
(* code: dqc: the text of group 1; efm: the three numbers of group 1.      *)

DqcCodes == {"DQC.US.0001.1", "DQC.US.0002.2"}

EfmTriples == {<<6, 5, 2>>, <<6, 5, 20>>}

\* '{:02d}'.format(n)
Pad2(n) == IF n < 10 THEN "0" \o ToString(n) ELSE ToString(n)

\* '{}{:02d}{:02d}'.format(*[int(x) for x in m.group(1).split('.')])
EfmFormatCode(t) == ToString(t[1]) \o Pad2(t[2]) \o Pad2(t[3])

DqcDiags ==
    [severity : {"ERROR"}, kind : {"code"}, code : DqcCodes]
    \cup [severity : {"ERROR"}, kind : {"none"}, code : {""}]
    \cup [severity : {"WARNING", "INFO"}, kind : {"code"}, code : {"DQC.US.0001.1"}]

EfmDiags ==
    [severity : {"ERROR"}, kind : {"code"}, code : EfmTriples]
    \cup [severity : {"ERROR", "WARNING"}, kind : {"none"}, code : {<<>>}]
    \cup [severity : {"ERROR"}, kind : {"bare"}, code : {<<>>}]
    \cup [severity : {"WARNING", "INFO"}, kind : {"code"}, code : {<<6, 5, 2>>}]

SeqsUpTo(S, n) == UNION {[1..k -> S] : k \in 0..n}

----------------------------------------------------------------------------
(* dqc_testsuite.py                                                        *)

\* one round of the loop at dqc_testsuite.py:230-236
DqcCount(counts, error) ==
    IF error.severity = "ERROR"
    THEN IF error.kind = "code"
         THEN CounterInc(counts, error.code)
         ELSE CounterInc(counts, "other")
    ELSE counts

RECURSIVE DqcErrorCountsFrom(_, _, _)
DqcErrorCountsFrom(log, i, counts) ==
    IF i > Len(log) THEN counts
    ELSE DqcErrorCountsFrom(log, i + 1, DqcCount(counts, log[i]))

DqcErrorCounts(log) == DqcErrorCountsFrom(log, 1, EmptyCounter)

\* dqc_testsuite.py:238-241; errors is variation['results']['errors'] as a
\* function code -> expected count
DqcPassedMutC7(errors, log, error_counts) ==
    /\ ~(Cardinality(DOMAIN errors) = 0 /\ HasErrors(log))
    /\ \A code \in DOMAIN errors : CounterGet(error_counts, code) # 0

DqcPassedMutC8(errors, log, error_counts) ==
    \A code \in DOMAIN errors : errors[code] = CounterGet(error_counts, code)

DqcPassedMutC9(errors, log, error_counts) ==
    /\ ~(Cardinality(DOMAIN errors) = 0 /\ HasErrors(log))
    /\ \A code \in DOMAIN errors : errors[code] = CounterGet(error_counts, code)
    /\ DOMAIN error_counts \subseteq DOMAIN errors

DqcPassed(errors, log, error_counts) ==
    /\ ~(Cardinality(DOMAIN errors) = 0 /\ HasErrors(log))
    /\ \A code \in DOMAIN errors : errors[code] = CounterGet(error_counts, code)

(* A dqc variation together with the answers of its environment:           *)
(*   data       the <variation> has a <data> child                         *)
(*   entry      'readMeFirst' in variation['data']                         *)
(*   hasResult  the <variation> has a <results> child                      *)
(*   errors     variation['results']['errors']: code -> count              *)
(*   raises     the download, the instance load or the validator raises    *)
(*   log        the error log after dqc_validation.validate                *)
DqcExecuteVariation(v) ==
    IF ~v.data THEN Raise(FALSE)                 \* KeyError 'data', line 212
    ELSE IF ~v.entry THEN Raise(FALSE)           \* RuntimeError, line 221
    ELSE IF ~v.hasResult THEN Raise(FALSE)       \* KeyError 'results', line 225
    ELSE IF v.raises THEN Raise(TRUE)            \* lines 214-225
    ELSE LET error_counts == DqcErrorCounts(v.log)
             passed == DqcPassed(v.errors, v.log, error_counts)
         IN  Return(IF passed THEN "PASS" ELSE "FAIL", error_counts, TRUE)

DqcErrorDicts ==
    UNION {[D -> 0..MaxCount] : D \in SUBSET DqcCodes}

DqcInputs ==
    \* variations that reach the validator
    [data : {TRUE}, entry : {TRUE}, hasResult : {TRUE}, raises : {FALSE},
     errors : DqcErrorDicts, log : SeqsUpTo(DqcDiags, MaxLog)]
    \cup
    \* every shape of variation, under a validator that may raise
    [data : BOOLEAN, entry : BOOLEAN, hasResult : BOOLEAN, raises : BOOLEAN,
     errors : {EmptyCounter},
     log : {<<>>, <<[severity |-> "ERROR", kind |-> "none", code |-> ""]>>}]

----------------------------------------------------------------------------
(* efm_testsuite.py                                                        *)

\* efm_testsuite.py:403-425.  error_counts is [err, wrn : Counter]; raised
\* is set when m.group(1) is None (AttributeError at line 422).
EfmCount(ec, error) ==
    IF ec.raised THEN ec
    ELSE IF error.severity \notin {"ERROR", "WARNING"} THEN ec
    ELSE LET severity == IF error.severity = "ERROR" THEN "err" ELSE "wrn"
             key == IF error.kind = "code" THEN EfmFormatCode(error.code) ELSE "other"
         IN  IF error.kind = "bare" THEN [ec EXCEPT !.raised = TRUE]
             ELSE [ec EXCEPT ![severity] = CounterInc(ec[severity], key)]

RECURSIVE EfmErrorCountsFrom(_, _, _)
EfmErrorCountsFrom(log, i, ec) ==
    IF i > Len(log) THEN ec
    ELSE EfmErrorCountsFrom(log, i + 1, EfmCount(ec, log[i]))

EfmNoCounts == [raised |-> FALSE, err |-> EmptyCounter, wrn |-> EmptyCounter]

EfmErrorCounts(ixbrl, log) ==
    IF ixbrl = "errors" THEN [EfmNoCounts EXCEPT !.err = CounterInc(EmptyCounter, "99999")]
    ELSE IF ixbrl = "warnings" THEN [EfmNoCounts EXCEPT !.wrn = CounterInc(EmptyCounter, "99999")]
    ELSE EfmErrorCountsFrom(log, 1, EfmNoCounts)

\* efm_testsuite.py:427-430; asserts is variation['result']['asserts']
EfmPassed(asserts, log, ec) ==
    /\ ~((~\E i \in DOMAIN asserts : asserts[i].severity = "err") /\ HasErrors(log))
    /\ \A i \in DOMAIN asserts : CounterGet(ec[asserts[i].severity], asserts[i].num) # 0

\* efm_testsuite.py:353
EfmSkipInstances(v) == v.instances > 1

\* efm_testsuite.py:356
EfmSkipAsserts(v) ==
    \E i \in DOMAIN v.asserts : v.asserts[i].num \in {"60302", "60310"}

(* An efm variation together with the answers of its environment:          *)
(*   data, entry      as for dqc                                           *)
(*   instances        len(variation['data']['instances'])                  *)
(*   hasResult        the <variation> has a <result> child                 *)
(*   asserts          variation['result']['asserts']: [num, severity]      *)
(*   refInstance      'instance' in variation['result']                    *)
(*   raises           the DTS/instance load or the validator raises        *)
(*   ixbrl            "none" | "warnings" | "errors": has_ixbrl_warnings,  *)
(*                    has_ixbrl_errors after the Inline XBRL steps         *)
(*   log              the error log the fingerprint is built from          *)
(*   instNone         instance is None after loading                       *)
(*   refLoads         the reference instance could be loaded               *)
(*   cmpEq            cmp_output(reference, instance)                      *)
\* efm_testsuite.py:434-436: the reference instance is loaded when the
\* diagnostic check passed, the validator left an instance and the result
\* names a reference; cmp_output is called when that load gave an instance
EfmCompared(passed, v) ==
    /\ passed
    /\ ~v.instNone
    /\ v.refInstance
    /\ v.refLoads

\* efm_testsuite.py:432-438
EfmConformanceMutC11(passed, v) ==
    IF ~v.instNone /\ v.refInstance /\ v.refLoads /\ ~v.cmpEq THEN "OUTPUT MISMATCH"
    ELSE IF passed THEN "PASS" ELSE "FAIL"

EfmConformance(passed, v) ==
    IF EfmCompared(passed, v) /\ ~v.cmpEq THEN "OUTPUT MISMATCH"
    ELSE IF passed THEN "PASS" ELSE "FAIL"

EfmExecuteVariation(v) ==
    IF ~v.data THEN Raise(FALSE)                       \* KeyError 'data', line 353
    ELSE IF EfmSkipInstances(v) THEN Return("SKIP", EmptyCounter, FALSE)
    ELSE IF ~v.hasResult THEN Raise(FALSE)             \* KeyError 'result', line 356
    ELSE IF EfmSkipAsserts(v) THEN Return("SKIP", EmptyCounter, FALSE)
    ELSE IF ~v.entry THEN Raise(FALSE)                 \* RuntimeError, line 361
    ELSE IF v.raises THEN Raise(TRUE)                  \* lines 363-398
    ELSE LET ec == EfmErrorCounts(v.ixbrl, v.log)
             passed == EfmPassed(v.asserts, v.log, ec)
             conformance == EfmConformance(passed, v)
         IN  IF ec.raised THEN Raise(TRUE)             \* AttributeError, line 422
             ELSE [Return(conformance, CounterAdd(ec.err, ec.wrn), TRUE)
                      EXCEPT !.compared = EfmCompared(passed, v)]

EfmAsserts ==
    [num : {"60502"}, severity : {"err", "wrn"}]
    \cup [num : {"60520", "60302", "60310"}, severity : {"err"}]

\* the asserts that are no submission checks
EfmCheckedAsserts == {a \in EfmAsserts : a.num \notin {"60302", "60310"}}

\* the answers about the output document: one representative for every
\* path through efm_testsuite.py:434-438
EfmOutputs ==
    { [refInstance |-> FALSE, instNone |-> FALSE, refLoads |-> TRUE, cmpEq |-> TRUE],
      [refInstance |-> TRUE, instNone |-> TRUE, refLoads |-> TRUE, cmpEq |-> TRUE],
      [refInstance |-> TRUE, instNone |-> FALSE, refLoads |-> FALSE, cmpEq |-> TRUE],
      [refInstance |-> TRUE, instNone |-> FALSE, refLoads |-> TRUE, cmpEq |-> TRUE],
      [refInstance |-> TRUE, instNone |-> FALSE, refLoads |-> TRUE, cmpEq |-> FALSE] }

EfmInput(data, instances, entry, hasResult, asserts, raises, ixbrl, log, out) ==
    [data |-> data, instances |-> instances, entry |-> entry, hasResult |-> hasResult,
     asserts |-> asserts, raises |-> raises, ixbrl |-> ixbrl, log |-> log,
     refInstance |-> out.refInstance, instNone |-> out.instNone,
     refLoads |-> out.refLoads, cmpEq |-> out.cmpEq]

EfmIxbrlLogs ==
    { xl \in {"warnings", "errors"} \X {s \in SeqsUpTo(EfmDiags, 1) : s # <<>>} :
        xl[1] = "errors" => HasErrors(xl[2]) }

EfmInputs ==
    \* variations that reach the validator, without Inline XBRL findings and
    \* without a reference instance
    { EfmInput(TRUE, 1, TRUE, TRUE, a, FALSE, "none", l, o) :
        a \in SeqsUpTo(EfmCheckedAsserts, MaxAsserts), l \in SeqsUpTo(EfmDiags, MaxLog),
        o \in {p \in EfmOutputs : ~p.refInstance} }
    \cup
    \* the same with a reference instance: every path through lines 434-438
    { EfmInput(TRUE, 1, TRUE, TRUE, a, FALSE, "none", l, o) :
        a \in SeqsUpTo(EfmCheckedAsserts, 1), l \in SeqsUpTo(EfmDiags, 1),
        o \in {p \in EfmOutputs : p.refInstance} }
    \cup
    \* variations with Inline XBRL warnings or errors (has_ixbrl_errors is
    \* set from error_log.has_errors(), line 392)
    { EfmInput(TRUE, 1, TRUE, TRUE, a, FALSE, xl[1], xl[2], o) :
        a \in SeqsUpTo(EfmCheckedAsserts, MaxAsserts),
        xl \in EfmIxbrlLogs,
        o \in {p \in EfmOutputs : ~p.refInstance} }
    \cup
    \* every shape of variation, under a validator that may raise
    { EfmInput(d, n, e, r, a, x, "none", <<>>, o) :
        d \in BOOLEAN, n \in 1..2, e \in BOOLEAN, r \in BOOLEAN,
        a \in SeqsUpTo(EfmAsserts, MaxAsserts), x \in BOOLEAN,
        o \in {p \in EfmOutputs : ~p.refInstance} }

----------------------------------------------------------------------------
(* efm_testsuite.py: the canonical form of an instance document.           *)
(*                                                                         *)
(* An element is [name, attrs, text, kids, typed]: its qname,              *)
(* elem.attributes as the sequence of its (qname, value) pairs, its text   *)
(* content, the sequence of its element children in document order, and    *)
(* whether its schema_actual_value is of a type other than xsd.string.     *)
(* A document is the sequence of the element children of its root.         *)
(*                                                                         *)
(* A frozenset built by hash_element is the record                         *)
(*   [name, attrs, text, kids]                                             *)
(* with attrs the set of the (qname, value) items, text the value of a     *)
(* childless element and kids the set of the values of the children; a     *)
(* number float(text) is written "#" followed by its shortest spelling.     *)

NoAttrs == <<>>

\* the qnames of elem.attributes
AttrNames(elem) == {elem.attrs[i][1] : i \in DOMAIN elem.attrs}

\* elem.find_attribute(a) and its value
Attr(elem, a) == elem.attrs[CHOOSE i \in DOMAIN elem.attrs : elem.attrs[i][1] = a][2]

Elem(name, attrs, text, kids) ==
    [name |-> name, attrs |-> attrs, text |-> text, kids |-> kids, typed |-> FALSE]

\* the text contents a childless element is given
Texts ==
    {"", "a", " a", "1", "1.0", " 1", "NaN", "true", " true",
     "<b/>", "<b/><b/>", "</b", " </b "}

\* text.strip()
TrimText(text) ==
    IF text = " a" THEN "a"
    ELSE IF text = " 1" THEN "1"
    ELSE IF text = " true" THEN "true"
    ELSE IF text = " </b " THEN "</b"
    ELSE text

\* float(text) raises ValueError
FloatRaises(text) == text \notin {"1", "1.0", "NaN", "nan"}

\* float(text) when it does not raise; 1 and 1.0 are the same number
FloatOf(text) == IF text \in {"1", "1.0"} THEN "#1" ELSE "#nan"

\* 'except: pass' of line 253: the text stays the stripped string
ExceptPassMutC27(text) == [raised |-> TRUE, value |-> text]

ExceptPass(text) == [raised |-> FALSE, value |-> text]

\* text.strip() and float(text) of efm_testsuite.py:250-254
StripAndFloat(text) ==
    IF FloatRaises(TrimText(text)) THEN ExceptPass(TrimText(text))
    ELSE [raised |-> FALSE, value |-> FloatOf(TrimText(text))]

TextValue(text) == IF text = "" THEN "" ELSE StripAndFloat(text).value

\* '/>' in text or '</' in text
MarkupLike(text) == text \in {"<b/>", "<b/><b/>", "</b", " </b "}

\* log.has_errors() after parsing '<root>%s</root>' % text
ParseErrors(text) == text \in {"</b", " </b "}

\* the element children of the parsed <root>
ParsedChildren(text) ==
    IF text = "<b/>" THEN <<Elem("b", NoAttrs, "", <<>>)>>
    ELSE IF text = "<b/><b/>" THEN <<Elem("b", NoAttrs, "", <<>>), Elem("b", NoAttrs, "", <<>>)>>
    ELSE <<>>

\* schema_actual_value of an element whose type is not xsd.string
TypedValue(text) == "@" \o TrimText(text)

\* efm_testsuite.py:268-272
ExcludeAttrs(name) ==
    {"xlink:label", "xlink:from", "xlink:to", "order"}
    \cup (IF name = "schemaRef" THEN {"xlink:arcrole"} ELSE {})
    \cup (IF name # "footnote" THEN {"xml:lang"} ELSE {})

\* which branch of hash_element_content a childless element takes
\* (efm_testsuite.py:237-255)
LeafBranch(elem) ==
    IF elem.text = "" THEN "empty"
    ELSE IF MarkupLike(elem.text) /\ ~ParseErrors(elem.text) THEN "parsed"
    ELSE IF ~MarkupLike(elem.text) /\ elem.typed THEN "typed"
    ELSE "text"

\* hash_element_content raises for a childless element
LeafRaises(elem) == LeafBranch(elem) = "text" /\ StripAndFloat(elem.text).raised

LeafText(elem) ==
    IF LeafBranch(elem) = "typed" THEN TypedValue(elem.text)
    ELSE IF LeafBranch(elem) = "text" THEN TextValue(elem.text)
    ELSE ""

\* the children whose canonical forms make up the value of an element
ContentChildren(elem) ==
    IF Len(elem.kids) > 0 THEN elem.kids
    ELSE IF LeafBranch(elem) = "parsed" THEN ParsedChildren(elem.text)
    ELSE <<>>

\* efm_testsuite.py:236-286 (hash_element_content and hash_element)
RECURSIVE HashElement(_)
HashElementMutC17(elem) ==
    [name |-> elem.name,
     attrs |-> {<<a, Attr(elem, a)>> : a \in AttrNames(elem) \ ExcludeAttrs(elem.name)},
     text |-> IF Len(elem.kids) = 0 THEN LeafText(elem) ELSE "",
     kids |-> {HashElement(ContentChildren(elem)[i]) :
                 i \in (DOMAIN ContentChildren(elem)) \cap {1}}]

HashElement(elem) ==
    [name |-> elem.name,
     attrs |-> {<<a, Attr(elem, a)>> : a \in AttrNames(elem) \ ExcludeAttrs(elem.name)},
     text |-> IF Len(elem.kids) = 0 THEN LeafText(elem) ELSE "",
     kids |-> {HashElement(ContentChildren(elem)[i]) : i \in DOMAIN ContentChildren(elem)}]

\* hash_element raises for an element or for one below it
RECURSIVE ElementRaises(_)
ElementRaises(elem) ==
    IF Len(elem.kids) = 0 THEN LeafRaises(elem)
    ELSE \E i \in DOMAIN elem.kids : ElementRaises(elem.kids[i])

\* the attribute that refers to an auxiliary element, and the entry of refs
\* it is recorded in (efm_testsuite.py:277-285)
RefAttrs ==
    [contexts |-> "contextRef", units |-> "unitRef",
     roleRefs |-> "xlink:role", arcroleRefs |-> "xlink:arcrole"]

\* what hash_element(elem, refs) adds to refs, as pairs (entry, value)
RECURSIVE ElementRefs(_)
ElementRefs(elem) ==
    {<<k, Attr(elem, RefAttrs[k])>> :
        k \in {x \in DOMAIN RefAttrs :
                 RefAttrs[x] \in AttrNames(elem) \ ExcludeAttrs(elem.name)}}
    \cup UNION {ElementRefs(elem.kids[i]) : i \in DOMAIN elem.kids}

\* the auxiliary elements of hash_instance: the entry of refElems and the
\* attribute that holds the key (efm_testsuite.py:323-330)
AuxEntry ==
    [roleRef |-> "roleRefs", arcroleRef |-> "arcroleRefs",
     context |-> "contexts", unit |-> "units"]

AuxKeyAttr ==
    [roleRef |-> "roleURI", arcroleRef |-> "arcroleURI", context |-> "id", unit |-> "id"]

IsAux(elem) == elem.name \in DOMAIN AuxEntry

AuxKey(elem) == <<AuxEntry[elem.name], Attr(elem, AuxKeyAttr[elem.name])>>

\* hash_footnoteLink, efm_testsuite.py:288-312.  labels maps a label to the
\* positions of the locs and footnotes that carry it.
LinkLabelled(link, label) ==
    {i \in DOMAIN link.kids :
        /\ link.kids[i].name \in {"loc", "footnote"}
        /\ Attr(link.kids[i], "xlink:label") = label}

LinkArcs(link) == {i \in DOMAIN link.kids : link.kids[i].name = "footnoteArc"}

LinkLabels(link) ==
    {Attr(link.kids[i], "xlink:label") :
        i \in {j \in DOMAIN link.kids : link.kids[j].name \in {"loc", "footnote"}}}

\* an unexpected child (line 301) or an arc whose from / to names no label
\* (KeyError, lines 305-306)
LinkRaises(link) ==
    \/ \E i \in DOMAIN link.kids : link.kids[i].name \notin {"loc", "footnote", "footnoteArc"}
    \/ \E i \in LinkArcs(link) :
          \/ Attr(link.kids[i], "xlink:from") \notin LinkLabels(link)
          \/ /\ LinkLabelled(link, Attr(link.kids[i], "xlink:from")) # {}
             /\ Attr(link.kids[i], "xlink:to") \notin LinkLabels(link)

Part(name, value) == [name |-> name, attrs |-> {}, text |-> "", kids |-> {value}]

HashFootnoteLink(link) ==
    {[name |-> "#triple", attrs |-> {}, text |-> "",
      kids |-> {Part("#arc", HashElement(link.kids[t[1]])),
                Part("#from", HashElement(link.kids[t[2]])),
                Part("#to", HashElement(link.kids[t[3]]))}] :
        t \in {x \in LinkArcs(link) \X (DOMAIN link.kids) \X (DOMAIN link.kids) :
                 /\ x[2] \in LinkLabelled(link, Attr(link.kids[x[1]], "xlink:from"))
                 /\ x[3] \in LinkLabelled(link, Attr(link.kids[x[1]], "xlink:to"))}}

\* what hash_footnoteLink adds to refs (lines 296, 299)
FootnoteLinkRefs(link) ==
    {<<"roleRefs", Attr(link.kids[i], "xlink:role")>> :
        i \in {j \in DOMAIN link.kids : link.kids[j].name = "footnote"}}
    \cup {<<"arcroleRefs", Attr(link.kids[i], "xlink:arcrole")>> : i \in LinkArcs(link)}

\* hash_instance, efm_testsuite.py:314-342
Untracked(elem) == elem.name \in {"schemaRef", "linkbaseRef"}

IsLink(elem) == elem.name = "footnoteLink"

Tracked(elem) == ~Untracked(elem) /\ ~IsAux(elem) /\ ~IsLink(elem)

InstanceRefs(doc) ==
    UNION {ElementRefs(doc[i]) : i \in {j \in DOMAIN doc : Tracked(doc[j])}}
    \cup UNION {FootnoteLinkRefs(doc[i]) \cup
                {<<"roleRefs", Attr(doc[i], "xlink:role")>>,
                 <<"footnoteLinks", Attr(doc[i], "xlink:role")>>} :
                i \in {j \in DOMAIN doc : IsLink(doc[j])}}

\* refElems[entry][key]: the last auxiliary element with the key is kept
RefElemsMutC20(doc, ref) ==
    {}

RefElems(doc, ref) ==
    IF ref[1] = "footnoteLinks"
    THEN {[name |-> "#footnoteLinks", attrs |-> {}, text |-> "",
           kids |-> UNION {HashFootnoteLink(doc[i]) :
                        i \in {j \in DOMAIN doc :
                                 IsLink(doc[j]) /\ Attr(doc[j], "xlink:role") = ref[2]}}]}
    ELSE LET at == {i \in DOMAIN doc : IsAux(doc[i]) /\ AuxKey(doc[i]) = ref}
         IN  IF at = {} THEN {}
             ELSE {HashElement(doc[CHOOSE i \in at : \A j \in at : j <= i])}

HashInstanceRaises(doc) ==
    \E i \in DOMAIN doc : ElementRaises(doc[i]) \/ (IsLink(doc[i]) /\ LinkRaises(doc[i]))

HashInstanceMutC19(doc) ==
    {HashElement(doc[i]) : i \in {j \in DOMAIN doc : ~IsLink(doc[j])}}
    \cup UNION {RefElems(doc, ref) : ref \in InstanceRefs(doc)}

HashInstance(doc) ==
    {HashElement(doc[i]) : i \in {j \in DOMAIN doc : Untracked(doc[j]) \/ Tracked(doc[j])}}
    \cup UNION {RefElems(doc, ref) : ref \in InstanceRefs(doc)}

\* a canonical form holds a NaN: float('nan') of one call is neither
\* identical nor equal to float('nan') of another
RECURSIVE HasNaN(_)
HasNaN(form) == \E e \in form : e.text = "#nan" \/ HasNaN(e.kids)

\* cmp_output, efm_testsuite.py:344-347: hash_left == hash_right on the
\* frozensets of two calls of hash_instance
CmpOutput(l, r) == HashInstance(l) = HashInstance(r) /\ ~HasNaN(HashInstance(l))

----------------------------------------------------------------------------
(* dqc_testsuite_xule_travis.py                                            *)

(* A Result(code, message, severity) is [code, msg, loc, severity]: the    *)
(* message is '[code] msg - loc' (lines 231, 237), so message.split(' -')  *)
(* without its last part is the pair (code, msg).  Codes, messages and     *)
(* locations are numbered in their sort order.                             *)
XuleResults == [code : 1..2, msg : 1..2, loc : 1..2, severity : {1}]

\* the order of sorted() on Result tuples: code, then message, then severity
XuleRank(r) == ((r.code * 4 + r.msg) * 4 + r.loc) * 4 + r.severity

RECURSIVE XuleSorted(_)
XuleSorted(S) ==
    IF S = {} THEN <<>>
    ELSE LET m == CHOOSE x \in S : \A y \in S : XuleRank(x) <= XuleRank(y)
         IN  <<m>> \o XuleSorted(S \ {m})

XuleMessageHead(r) == <<r.code, r.msg>>

\* the loop at dqc_testsuite_xule_travis.py:250-258
RECURSIVE XuleCompareFrom(_, _, _, _)
XuleCompareFrom(actual, expected, i, conformance) ==
    IF i > Len(actual) THEN conformance
    ELSE IF actual[i] # expected[i]
         THEN IF XuleMessageHead(actual[i]) = XuleMessageHead(expected[i])
              THEN "INVALID LINE LOCATION"
              ELSE XuleCompareFrom(actual, expected, i + 1, "INVALID")
         ELSE XuleCompareFrom(actual, expected, i + 1, conformance)

\* dqc_testsuite_xule_travis.py:241-258
XuleConformanceMutC6(actual, expected) ==
    IF actual = expected THEN "PASS"
    ELSE IF Cardinality(actual) # Cardinality(expected)
         THEN "INVALID RESULT COUNT"
         ELSE XuleCompareFrom(XuleSorted(actual), XuleSorted(expected), 1, "unbound")

XuleConformanceMutC12(actual, expected) ==
    IF actual = expected THEN "PASS"
    ELSE IF Cardinality(actual) # Cardinality(expected)
         THEN "INVALID"
         ELSE XuleCompareFrom(XuleSorted(actual), XuleSorted(expected), 1, "unbound")

XuleConformance(actual, expected) ==
    IF actual = expected THEN "PASS"
    ELSE IF Cardinality(actual) # Cardinality(expected)
         THEN "INVALID NUMBER OF EVALUATIONS"
         ELSE XuleCompareFrom(XuleSorted(actual), XuleSorted(expected), 1, "unbound")

(* A xule variation together with the answers of its environment:          *)
(*   raises    load_instance, xp.execute or load_results raises            *)
(*   actual    the set of Results built from xp.execute                    *)
(*   expected  load_results(variation['expected'])                         *)
XuleExecuteVariation(v) ==
    IF v.raises THEN Raise(TRUE)
    ELSE LET conformance == XuleConformance(v.actual, v.expected)
         IN  IF conformance = "unbound" THEN Raise(TRUE)   \* UnboundLocalError
             ELSE Return(conformance, v.actual, TRUE)

SubsetsUpTo(S, n) == {T \in SUBSET S : Cardinality(T) <= n}

XuleInputs ==
    [raises : {FALSE}, actual : SubsetsUpTo(XuleResults, MaxEvals),
     expected : SubsetsUpTo(XuleResults, MaxEvals)]
    \cup [raises : {TRUE}, actual : {{}}, expected : {{}}]

----------------------------------------------------------------------------
(* The callback of a harness and the variations it is tried on.            *)

ExecuteVariation(h, v) ==
    IF h = "dqc" THEN DqcExecuteVariation(v)
    ELSE IF h = "efm" THEN EfmExecuteVariation(v)
    ELSE XuleExecuteVariation(v)

VariationInputs(h) ==
    IF h = "dqc" THEN DqcInputs
    ELSE IF h = "efm" THEN EfmInputs
    ELSE XuleInputs

\* the except clause around future.result(): efm_testsuite.py:465-468,
\* dqc_testsuite.py:267-270, dqc_testsuite_xule_travis.py:283-288
StoredStatusMutC2(outcome) == IF outcome.raised THEN "FAIL" ELSE outcome.status

StoredStatus(outcome) == IF outcome.raised THEN "EXCEPTION" ELSE outcome.status

StoredResult(outcome) ==
    <<StoredStatus(outcome), IF outcome.raised THEN EmptyCounter ELSE outcome.counts>>

----------------------------------------------------------------------------
(* SpecClassify: execute_variation on one variation, and the entry the     *)
(* collecting loop stores for it.                                          *)

NoVariation == [none |-> TRUE]

InitClassify ==
    /\ harness \in Harnesses
    /\ cv \in VariationInputs(harness)
    /\ cres = NoVariation
    /\ cstored = NoVariation
    /\ cpc = "input"
    /\ pc = "idle"
    /\ testsuite = <<>>
    /\ args = NoVariation
    /\ si = 0
    /\ futures = <<>>
    /\ results = <<>>
    /\ report = <<>>

\* execute_variation reads the variation and the error log; its counters
\* are locals of the call
ClassifyMutC14 ==
    /\ cpc = "input"
    /\ cres' = ExecuteVariation(harness, cv)
    /\ cpc' = "classified"
    /\ cv' = IF "log" \in DOMAIN cv /\ cv.log # <<>>
             THEN [cv EXCEPT !.log = Tail(@)] ELSE cv
    /\ UNCHANGED <<harness, cstored>>
    /\ UNCHANGED schedVars

Classify ==
    /\ cpc = "input"
    /\ cres' = ExecuteVariation(harness, cv)
    /\ cpc' = "classified"
    /\ UNCHANGED <<harness, cv, cstored>>
    /\ UNCHANGED schedVars

\* results[variation_key] = future.result(), or the except clause
Store ==
    /\ cpc = "classified"
    /\ cstored' = StoredResult(cres)
    /\ cpc' = "stored"
    /\ UNCHANGED <<harness, cv, cres>>
    /\ UNCHANGED schedVars

\* which fields the report writers will find in the variation:
\*   "ok"        variation['data']['readMeFirst'] and variation['result(s)']
\*   "noentry"   no readMeFirst (or no <data>), but a <result(s)> element
\*   "noresult"  no <result(s)> element
Wf(h, v) ==
    IF h = "xule" THEN "ok"
    ELSE IF ~v.hasResult THEN "noresult"
    ELSE IF ~(v.data /\ v.entry) THEN "noentry"
    ELSE "ok"

\* a report writer reads a field the variation does not have (KeyError):
\* variation['data']['readMeFirst'] in the csv and xml writers of dqc and efm,
\* variation['result']['asserts'] / variation['results']['errors'] in every
\* writer of dqc and efm
RowRaises(h, writer, wf) ==
    /\ h # "xule"
    /\ \/ wf = "noresult"
       \/ wf = "noentry" /\ writer \in {"csv", "xml"}

\* the codes the variation expects: set(variation['results']['errors']),
\* set(_assert['num'] for _assert in variation['result']['asserts'])
ExpectedCodes(h, v) ==
    IF h = "dqc" THEN DOMAIN v.errors
    ELSE IF h = "efm" THEN {v.asserts[n].num : n \in DOMAIN v.asserts}
    ELSE {}

\* len(variation['results']['errors']), len(variation['result']['asserts'])
ExpectedLen(h, v) ==
    IF h = "dqc" THEN Cardinality(DOMAIN v.errors)
    ELSE IF h = "efm" THEN Len(v.asserts)
    ELSE 0

\* set(error_counts.keys()) - set(expected codes)
AdditionalErrors(h, v, error_counts) == (DOMAIN error_counts) \ ExpectedCodes(h, v)

\* the test that guards the note on additional errors in every writer:
\* efm_testsuite.py:507, 538, 559, dqc_testsuite.py:303, 335, 357
NoteWritten(h, v, status, error_counts) ==
    /\ h # "xule"
    /\ status = "PASS"
    /\ ExpectedLen(h, v) # Cardinality(DOMAIN error_counts)

\* what a report writer makes of the stored entry of the variation
Row(h, writer, v, stored) ==
    IF RowRaises(h, writer, Wf(h, v))
    THEN [writer |-> writer, raised |-> TRUE, status |-> "", note |-> FALSE,
          additional |-> {}]
    ELSE [writer |-> writer, raised |-> FALSE, status |-> stored[1],
          note |-> NoteWritten(h, v, stored[1], stored[2]),
          additional |-> IF NoteWritten(h, v, stored[1], stored[2])
                         THEN AdditionalErrors(h, v, stored[2]) ELSE {}]

\* the body of the variation loop of a report writer
WriteRow ==
    /\ cpc = "stored"
    /\ \E writer \in {"csv", "xml", "console"} :
          report' = Row(harness, writer, cv, cstored)
    /\ cpc' = "row"
    /\ UNCHANGED <<harness, cv, cres, cstored>>
    /\ UNCHANGED <<pc, testsuite, args, si, futures, results>>

NextClassify == Classify \/ Store \/ WriteRow

SpecClassify == InitClassify /\ [][NextClassify]_vars

----------------------------------------------------------------------------
(* Spec: one run of run_xbrl_testsuite.                                    *)
(*                                                                         *)
(* A variation of the suite is [tc, id]: its testcase (number and uri) and *)
(* its id; for xule, tc is variation['file'] and id is                     *)
(* variation['xule_run_only'].  The key of its entry in results is         *)
(* (testcase['uri'], variation['id']), resp. (file, xule_run_only).        *)
(* What else a variation holds is drawn when its callback runs: the run    *)
(* only depends on what the callback did (Outcome) and on whether the      *)
(* report writers find the fields they read (wf).  Of the pair stored in   *)
(* results the run keeps the status; the fingerprint stored with it is     *)
(* the subject of SpecClassify.                                            *)

Testcases == 1..2

VariationIds == 1..2

Variations == [tc : Testcases, id : VariationIds]

Key(variation) == <<variation.tc, variation.id>>

Outcome(h, v) ==
    LET r == ExecuteVariation(h, v)
    IN  [raised |-> r.raised, status |-> r.status, wf |-> Wf(h, v)]

CallbackOutcomes ==
    [h \in Harnesses |-> {Outcome(h, v) : v \in VariationInputs(h)}]

NoOutcome == [raised |-> FALSE, status |-> "", wf |-> ""]

NoReport == [written |-> {}, aborted |-> "", total |-> 0, failed |-> 0, skipped |-> 0,
             conformance |-> 0, rows |-> <<>>]

\* --testcase / --variation (xule: --variation, matched against the file);
\* the empty set stands for an option that is absent or has no values
ArgsOf(h) ==
    [testcase_numbers : {{}, {1}},
     variation_ids : IF h = "xule" THEN {{}} ELSE {{}, {1}},
     max_workers : 1..MaxWorkers]

Init ==
    /\ harness \in Harnesses
    /\ args \in ArgsOf(harness)
    /\ pc = "start"
    /\ testsuite = <<>>
    /\ si = 0
    /\ futures = <<>>
    /\ results = <<>>
    /\ report = NoReport
    /\ cv = NoVariation
    /\ cres = NoVariation
    /\ cstored = NoVariation
    /\ cpc = "idle"

\* the variations of a suite in the order the submit loop visits them:
\* testcase by testcase in index order (testcases numbered in that order),
\* and within a testcase in document order
Suites ==
    {suite \in SeqsUpTo(Variations, MaxVariations) :
        \A i \in DOMAIN suite, j \in DOMAIN suite : i < j => suite[i].tc <= suite[j].tc}

\* load_testsuite: efm_testsuite.py:203-233, dqc_testsuite.py:168-198,
\* dqc_testsuite_xule_travis.py:194-213.  An unreadable index and an
\* unreadable testcase file both raise out of load_testsuite.
\* what makes load_testsuite raise: the index cannot be loaded, or (dqc,
\* efm) load_testcase raises ValidationError for one testcase file; the
\* xule loader reads the index only
LoadFailures(h) == IF h = "xule" THEN {"index"} ELSE {"index", "testcase"}

LoadTestsuite ==
    /\ pc = "start"
    /\ \/ /\ \E suite \in Suites : testsuite' = suite
          /\ pc' = "loaded"
          /\ UNCHANGED report
       \/ /\ \E cause \in LoadFailures(harness) :
                report' = [report EXCEPT !.aborted = cause]
          /\ pc' = "ended"
          /\ UNCHANGED testsuite
    /\ UNCHANGED <<harness, args, si, futures, results>>
    /\ UNCHANGED classVars

\* the head of execute_testsuite up to the creation of the executor
BeginExecute ==
    /\ pc = "loaded"
    /\ \/ /\ futures' = [i \in 1..Len(testsuite) |-> [st |-> "new", out |-> NoOutcome]]
          /\ results' = <<>>
          /\ si' = 1
          /\ pc' = IF Len(testsuite) = 0 THEN "collect" ELSE "submit"
          /\ UNCHANGED report
       \/ \* load_catalog or setup_xule_processor raises (xule, lines 266-267)
          /\ harness = "xule"
          /\ report' = [report EXCEPT !.aborted = "setup"]
          /\ pc' = "ended"
          /\ UNCHANGED <<futures, results, si>>
    /\ UNCHANGED <<harness, args, testsuite>>
    /\ UNCHANGED classVars

\* the filters of the submit loop: efm_testsuite.py:455-459,
\* dqc_testsuite.py:257-261, dqc_testsuite_xule_travis.py:276-277
SelectedMutC28(variation) == TRUE

Selected(variation) ==
    /\ ~(args.testcase_numbers # {} /\ variation.tc \notin args.testcase_numbers)
    /\ ~(args.variation_ids # {} /\ variation.id \notin args.variation_ids)

\* one round of the submit loop
Submit ==
    /\ pc = "submit"
    /\ si <= Len(testsuite)
    /\ futures' = [futures EXCEPT ![si].st =
                      IF Selected(testsuite[si]) THEN "pending" ELSE "unselected"]
    /\ si' = si + 1
    /\ pc' = IF si = Len(testsuite) THEN "collect" ELSE "submit"
    /\ UNCHANGED <<harness, args, testsuite, results, report>>
    /\ UNCHANGED classVars

Running == {i \in DOMAIN futures : futures[i].st = "running"}

Pending == {i \in DOMAIN futures : futures[i].st = "pending"}

\* ThreadPoolExecutor(max_workers=args.max_workers): a worker thread takes
\* the oldest queued work item, and there are at most max_workers threads
WorkerFreeMutC4 == TRUE

WorkerFree == Cardinality(Running) < args.max_workers

Start(i) ==
    /\ pc \in {"submit", "collect"}
    /\ i \in Pending
    /\ \A j \in Pending : i <= j
    /\ WorkerFree
    /\ futures' = [futures EXCEPT ![i].st = "running"]
    /\ UNCHANGED <<harness, pc, args, testsuite, si, results, report>>
    /\ UNCHANGED classVars

\* the worker runs execute_variation to its end
FinishMutC25(i) ==
    /\ pc \in {"submit", "collect"}
    /\ i \in Running
    /\ \E o \in CallbackOutcomes[harness] :
          /\ futures' = [futures EXCEPT ![i] = [st |-> "finished", out |-> o]]
          /\ results' = [k \in (DOMAIN results) \cup {Key(testsuite[i])} |->
                            IF k = Key(testsuite[i]) THEN o.status ELSE results[k]]
    /\ UNCHANGED <<harness, pc, args, testsuite, si, report>>
    /\ UNCHANGED classVars

Finish(i) ==
    /\ pc \in {"submit", "collect"}
    /\ i \in Running
    /\ \E o \in CallbackOutcomes[harness] :
          futures' = [futures EXCEPT ![i] = [st |-> "finished", out |-> o]]
    /\ UNCHANGED <<harness, pc, args, testsuite, si, results, report>>
    /\ UNCHANGED classVars

Submitted == {i \in DOMAIN futures : futures[i].st \notin {"new", "unselected"}}

Collected == {i \in DOMAIN futures : futures[i].st = "collected"}

PutMutC1(map, key, value) == [k \in {key} |-> value]

PutMutC26(map, key, value) ==
    IF DOMAIN map # {} THEN map ELSE [k \in {key} |-> value]

Put(map, key, value) ==
    [k \in (DOMAIN map) \cup {key} |-> IF k = key THEN value ELSE map[k]]

\* one round of the as_completed loop
Collect(i) ==
    /\ pc = "collect"
    /\ futures[i].st = "finished"
    /\ results' = Put(results, Key(testsuite[i]), StoredStatus(futures[i].out))
    /\ futures' = [futures EXCEPT ![i].st = "collected"]
    /\ UNCHANGED <<harness, pc, args, testsuite, si, report>>
    /\ UNCHANGED classVars

\* as_completed is exhausted and the with block is left
JoinedMutC5 == \A i \in Submitted : futures[i].st \in {"finished", "collected"}

Joined == \A i \in Submitted : futures[i].st = "collected"

Join ==
    /\ pc = "collect"
    /\ Joined
    /\ pc' = "report"
    /\ UNCHANGED <<harness, args, testsuite, si, futures, results, report>>
    /\ UNCHANGED classVars

\* calc_conformance: efm_testsuite.py:475-487, dqc_testsuite.py:277-282,
\* dqc_testsuite_xule_travis.py:295-300.  conformance is kept in hundredths
\* of a percent, rounded to the nearest as the reports print it ('%.2f').
CountStatus(res, S) == Cardinality({k \in DOMAIN res : res[k] \in S})

CalcRaises(h, res) == h # "xule" /\ Cardinality(DOMAIN res) = 0

Hundredths(num, den) == (2 * num * 100 + den) \div (2 * den)

CalcConformanceMutC15(h, res) ==
    LET total == Cardinality(DOMAIN res)
        skipped == IF h = "efm" THEN CountStatus(res, {"SKIP"}) ELSE 0
        failed == total - CountStatus(res, {"PASS"})
    IN  [total |-> total, failed |-> failed, skipped |-> skipped,
         conformance |-> IF total > 0 THEN Hundredths((total - failed) * 100, total)
                         ELSE 10000]

CalcConformance(h, res) ==
    LET total == Cardinality(DOMAIN res)
        skipped == IF h = "efm" THEN CountStatus(res, {"SKIP"}) ELSE 0
        failed == IF h = "efm"
                  THEN total - CountStatus(res, {"PASS"}) - skipped
                  ELSE total - CountStatus(res, {"PASS"})
    IN  [total |-> total, failed |-> failed, skipped |-> skipped,
         conformance |-> IF total > 0 THEN Hundredths((total - failed) * 100, total)
                         ELSE 10000]

WriterRaises(h, writer) ==
    \/ CalcRaises(h, results)
    \/ \E i \in DOMAIN testsuite :
          /\ Key(testsuite[i]) \in DOMAIN results
          /\ RowRaises(h, writer, futures[i].out.wf)

\* the writers run_xbrl_testsuite calls, in order
Writers(csv_file, xml_file) ==
    IF csv_file /\ xml_file THEN <<"csv", "xml">>
    ELSE IF csv_file THEN <<"csv">>
    ELSE IF xml_file THEN <<"xml">>
    ELSE <<"console">>

\* the report part of run_xbrl_testsuite: efm_testsuite.py:569-578,
\* dqc_testsuite.py:367-376, dqc_testsuite_xule_travis.py:364-373
\* 'if variation_key in results' of the report writers
HasRow(variation) == Key(variation) \in DOMAIN results

\* the rows of a report: the writers iterate testsuite['testcases'] and
\* their variations (xule: testsuite['variations']) and look the status up
\* in results
ReportRows(res) ==
    LET listed == SelectSeq(testsuite, HasRow)
    IN  [n \in DOMAIN listed |-> [key |-> Key(listed[n]), status |-> res[Key(listed[n])]]]

WriteReports ==
    /\ pc = "report"
    /\ \E csv_file \in BOOLEAN, xml_file \in BOOLEAN :
          LET ws == Writers(csv_file, xml_file)
              bad == {n \in DOMAIN ws : WriterRaises(harness, ws[n])}
              done == {ws[n] : n \in {m \in DOMAIN ws : \A b \in bad : m < b}}
              c == CalcConformance(harness, results)
          IN  report' = [written |-> done,
                         aborted |-> IF bad = {} THEN "" ELSE "report",
                         total |-> c.total, failed |-> c.failed,
                         skipped |-> c.skipped, conformance |-> c.conformance,
                         rows |-> IF done = {} THEN <<>> ELSE ReportRows(results)]
    /\ pc' = "ended"
    /\ UNCHANGED <<harness, args, testsuite, si, futures, results>>
    /\ UNCHANGED classVars

Next ==
    \/ LoadTestsuite
    \/ BeginExecute
    \/ Submit
    \/ \E i \in DOMAIN futures : Start(i)
    \/ \E i \in DOMAIN futures : Finish(i)
    \/ \E i \in DOMAIN futures : Collect(i)
    \/ Join
    \/ WriteReports

Spec == Init /\ [][Next]_vars

----------------------------------------------------------------------------
(* SpecReport: the report part of run_xbrl_testsuite on the results of a   *)
(* run that has been joined: passed PASS verdicts, skipped SKIP verdicts   *)
(* (efm only) and failed failing verdicts of the harness, over variations  *)
(* that have every field the writers read.                                 *)

MaxPassed == 6
MaxSkipped == 1
MaxFailed == 3

\* the failing verdicts a harness stores
FailingVerdicts(h) ==
    IF h = "dqc" THEN <<"FAIL", "EXCEPTION">>
    ELSE IF h = "efm" THEN <<"FAIL", "OUTPUT MISMATCH", "EXCEPTION">>
    ELSE <<"INVALID NUMBER OF EVALUATIONS", "INVALID LINE LOCATION", "INVALID",
           "EXCEPTION">>

\* the verdict of the i-th variation: first the passed, then the skipped,
\* then the failing ones, taking the failing verdicts in turn from first
VerdictAt(h, passed, skipped, first, i) ==
    IF i <= passed THEN "PASS"
    ELSE IF i <= passed + skipped THEN "SKIP"
    ELSE LET fv == FailingVerdicts(h)
         IN  fv[((i - passed - skipped - 1 + first - 1) % Len(fv)) + 1]

InitReport ==
    /\ harness \in Harnesses
    /\ \E passed \in 0..MaxPassed, failed \in 0..MaxFailed,
          skipped \in 0..(IF harness = "efm" THEN MaxSkipped ELSE 0),
          first \in 1..Len(FailingVerdicts(harness)) :
          LET total == passed + skipped + failed
              verdict == [i \in 1..total |-> VerdictAt(harness, passed, skipped, first, i)]
          IN  /\ failed = 0 => first = 1
              /\ testsuite = [i \in 1..total |-> [tc |-> i, id |-> 1]]
              /\ futures = [i \in 1..total |->
                    [st |-> "collected",
                     out |-> [raised |-> verdict[i] = "EXCEPTION",
                              status |-> IF verdict[i] = "EXCEPTION" THEN "" ELSE verdict[i],
                              wf |-> "ok"]]]
              /\ results = [k \in {<<i, 1>> : i \in 1..total} |-> verdict[k[1]]]
              /\ si = total + 1
    /\ args = [testcase_numbers |-> {}, variation_ids |-> {}, max_workers |-> 1]
    /\ pc = "report"
    /\ report = NoReport
    /\ cv = NoVariation
    /\ cres = NoVariation
    /\ cstored = NoVariation
    /\ cpc = "idle"

NextReport == WriteReports

SpecReport == InitReport /\ [][NextReport]_vars

----------------------------------------------------------------------------
(* SpecHash: cmp_output(reference, output) of efm_testsuite.py.            *)
(*                                                                         *)
(* cv is [left, right, change, at]: the two documents, and how the right   *)
(* one was derived from the left one:                                      *)
(*   "order"    the children of the root, or the children of child `at`,   *)
(*              are permuted (at = 0: the root)                            *)
(*   "copies"   child `at` of the root, or the first child of child `at`,  *)
(*              occurs once more                                           *)
(*   "removed"  the auxiliary element `at` is left out                     *)
(*   "changed"  the content of the auxiliary element `at` is changed       *)
(*   "relabel"  the xlink:label values of the footnoteLink `at` and the     *)
(*              xlink:from / xlink:to values that refer to them are         *)
(*              renamed one-to-one                                          *)
(*   "attrs"    the attributes of child `at` and of its children are        *)
(*              written in another order                                    *)
(*   "text"     the childless element `at` is given another text content    *)
(*              and type                                                    *)

Attr1(a, v) == <<<<a, v>>>>

Attr2(a, v, b, w) == <<<<a, v>>, <<b, w>>>>

Attr3(a, v, b, w, c, u) == <<<<a, v>>, <<b, w>>, <<c, u>>>>

Leaf(name, attrs, text) == Elem(name, attrs, text, <<>>)

FootnoteLink ==
    Elem("footnoteLink", Attr1("xlink:role", "r1"), "",
         <<Leaf("loc", Attr2("xlink:label", "l1", "xlink:href", "#f1"), ""),
           Leaf("footnote", Attr3("xlink:label", "l2", "xlink:role", "r2", "xml:lang", "en"), "a"),
           Leaf("footnoteArc", Attr3("xlink:from", "l1", "xlink:to", "l2", "xlink:arcrole", "a1"), "")>>)

\* the element children of the root that the documents are made of
Menu ==
    << Leaf("schemaRef", Attr2("xlink:href", "h1", "xlink:arcrole", "a2"), ""),
       Leaf("linkbaseRef", Attr2("xlink:href", "h1", "xlink:role", "std"), ""),
       Leaf("roleRef", Attr2("roleURI", "r1", "xlink:href", "h1"), ""),
       Leaf("roleRef", Attr2("roleURI", "r2", "xlink:href", "h1"), ""),
       Leaf("arcroleRef", Attr2("arcroleURI", "a1", "xlink:href", "h1"), ""),
       Elem("context", Attr1("id", "c1"), "", <<Leaf("period", NoAttrs, "a")>>),
       Elem("context", Attr1("id", "c2"), "",
            <<Leaf("entity", NoAttrs, "a"), Leaf("period", NoAttrs, "b")>>),
       Elem("unit", Attr1("id", "u1"), "", <<Leaf("measure", NoAttrs, "a")>>),
       Leaf("Item", Attr1("contextRef", "c1"), "a"),
       Leaf("Item", Attr2("contextRef", "c1", "unitRef", "u1"), "1"),
       Leaf("Item", Attr1("contextRef", "c1"), "NaN"),
       Elem("Tuple", NoAttrs, "",
            <<Leaf("Item", Attr1("contextRef", "c2"), "a"),
              Leaf("Item", Attr1("contextRef", "c2"), "1.0")>>),
       FootnoteLink >>

\* the members of a set of positions of Menu, in the order of Menu
Pick(S) ==
    [k \in 1..Cardinality(S) |->
        Menu[CHOOSE x \in S : Cardinality({y \in S : y < x}) = k - 1]]

Documents == {Pick(S) : S \in {T \in SUBSET (DOMAIN Menu) : Cardinality(T) <= MaxElements}}

Perms(n) == {p \in [1..n -> 1..n] : \A i, j \in 1..n : p[i] = p[j] => i = j}

Permute(seq, p) == [i \in DOMAIN seq |-> seq[p[i]]]

DuplicateAt(seq, i) == SubSeq(seq, 1, i) \o SubSeq(seq, i, Len(seq))

RemoveAt(seq, i) == SubSeq(seq, 1, i - 1) \o SubSeq(seq, i + 1, Len(seq))

\* ways to change the content of an element that keep its name and its key
Changes(elem) ==
    {[elem EXCEPT !.attrs = Append(@, <<"xml:lang", "en">>)]}
    \cup (IF "xlink:href" \in AttrNames(elem)
          THEN {[elem EXCEPT !.attrs = [i \in DOMAIN @ |->
                    IF @[i][1] = "xlink:href" THEN <<"xlink:href", "h2">> ELSE @[i]]]}
          ELSE {})
    \cup (IF Len(elem.kids) = 0 THEN {}
          ELSE {[elem EXCEPT !.kids[1].text = "b"],
                [elem EXCEPT !.kids[1].text = " a"],
                [elem EXCEPT !.kids = DuplicateAt(@, 1)],
                [elem EXCEPT !.kids = Permute(@, [i \in DOMAIN @ |-> Len(@) + 1 - i])]})

\* one-to-one renamings of the labels of FootnoteLink
Renamings ==
    {[l1 |-> "m1", l2 |-> "m2"], [l1 |-> "l2", l2 |-> "l1"], [l1 |-> "l1", l2 |-> "m2"]}

Relabel(link, f) ==
    [link EXCEPT !.kids = [k \in DOMAIN @ |->
        [@[k] EXCEPT !.attrs = [i \in DOMAIN @ |->
            IF @[i][1] \in {"xlink:label", "xlink:from", "xlink:to"}
            THEN <<@[i][1], f[@[i][2]]>> ELSE @[i]]]]]

ReverseAttrs(elem) ==
    [elem EXCEPT !.attrs = Permute(@, [i \in DOMAIN @ |-> Len(@) + 1 - i]),
                 !.kids = [k \in DOMAIN @ |->
                    [@[k] EXCEPT !.attrs = Permute(@, [i \in DOMAIN @ |-> Len(@) + 1 - i])]]]

Derived(doc) ==
    {[left |-> doc, right |-> [doc EXCEPT ![i].text = t, ![i].typed = ty],
      change |-> "text", at |-> i] :
        i \in {j \in DOMAIN doc : doc[j].name = "Item"}, t \in Texts, ty \in BOOLEAN}
    \cup
    {[left |-> doc, right |-> [doc EXCEPT ![i] = Relabel(@, f)], change |-> "relabel", at |-> i] :
        i \in {j \in DOMAIN doc : IsLink(doc[j])}, f \in Renamings}
    \cup {[left |-> doc, right |-> [doc EXCEPT ![i] = ReverseAttrs(@)], change |-> "attrs", at |-> i] :
            i \in DOMAIN doc}
    \cup {[left |-> doc, right |-> [j \in DOMAIN doc |-> ReverseAttrs(Relabel(doc[j], [l1 |-> "m1", l2 |-> "m2"]))],
           change |-> "relabel", at |-> i] :
            i \in {j \in DOMAIN doc : IsLink(doc[j])}}
    \cup
    {[left |-> doc, right |-> Permute(doc, p), change |-> "order", at |-> 0] :
        p \in Perms(Len(doc))}
    \cup UNION {{[left |-> doc, right |-> [doc EXCEPT ![i].kids = Permute(@, p)],
                  change |-> "order", at |-> i] : p \in Perms(Len(doc[i].kids))} :
                i \in {j \in DOMAIN doc : Len(doc[j].kids) > 1}}
    \cup {[left |-> doc, right |-> DuplicateAt(doc, i), change |-> "copies", at |-> i] :
            i \in {j \in DOMAIN doc : ~IsAux(doc[j])}}
    \cup {[left |-> doc, right |-> [doc EXCEPT ![i].kids = DuplicateAt(@, 1)],
           change |-> "copies", at |-> i] :
            i \in {j \in DOMAIN doc : Len(doc[j].kids) > 0}}
    \cup {[left |-> doc, right |-> RemoveAt(doc, i), change |-> "removed", at |-> i] :
            i \in {j \in DOMAIN doc : IsAux(doc[j])}}
    \cup UNION {{[left |-> doc, right |-> [doc EXCEPT ![i] = e], change |-> "changed", at |-> i] :
                  e \in Changes(doc[i])} :
                i \in {j \in DOMAIN doc : IsAux(doc[j])}}

InitHash ==
    /\ harness = "efm"
    /\ \E doc \in Documents : cv \in Derived(doc)
    /\ cres = NoVariation
    /\ cstored = NoVariation
    /\ cpc = "input"
    /\ pc = "idle"
    /\ testsuite = <<>>
    /\ args = NoVariation
    /\ si = 0
    /\ futures = <<>>
    /\ results = <<>>
    /\ report = <<>>

\* cmp_output(ref_instance.document_element, instance.document_element)
Compare ==
    /\ cpc = "input"
    /\ cres' = [raised |-> HashInstanceRaises(cv.left) \/ HashInstanceRaises(cv.right),
                left |-> HashInstance(cv.left),
                right |-> HashInstance(cv.right),
                equal |-> CmpOutput(cv.left, cv.right),
                conformance |-> EfmConformance(TRUE,
                    [instNone |-> FALSE, refInstance |-> TRUE, refLoads |-> TRUE,
                     cmpEq |-> CmpOutput(cv.left, cv.right)])]
    /\ cpc' = "compared"
    /\ UNCHANGED <<harness, cv, cstored>>
    /\ UNCHANGED schedVars

NextHash == Compare

SpecHash == InitHash /\ [][NextHash]_vars

----------------------------------------------------------------------------
(* SpecValidate: validate(instance, error_log, params) of                  *)
(* dqc_validation.py ("python") and dqc_validation_xule.py ("xule").       *)
(*                                                                         *)
(* cv is [validator, given, codes, findings]:                              *)
(*   given     params holds a non-empty 'suppressErrors' value             *)
(*   codes     val.split('|') of that value                                *)
(*   findings  the rule ids the rules report for the instance, in order    *)

RuleIds == {"DQC.US.0001.1", "DQC.US.0002.2", "DQC.US.0003.3"}

\* rule_id.rsplit('.', 1)[0]
RuleFamily(rule_id) ==
    IF rule_id = "DQC.US.0001.1" THEN "DQC.US.0001"
    ELSE IF rule_id = "DQC.US.0002.2" THEN "DQC.US.0002"
    ELSE IF rule_id = "DQC.US.0003.3" THEN "DQC.US.0003"
    ELSE "DQC.US"

\* the pieces of a suppressErrors value between the '|' characters
SuppressTokens == {"DQC.US.0001.1", "DQC.US.0002.2", " DQC.US.0002.2", "DQC.US.0001"}

\* code.strip()
Strip(code) == IF code = " DQC.US.0002.2" THEN "DQC.US.0002.2" ELSE code

\* parse_suppress_errors: [] for a missing or empty value, else the split
ParseSuppressErrors(v) == IF v.given THEN v.codes ELSE <<>>

\* the error the validators create for a rule result
RuleError(rule_id) == [severity |-> "ERROR", kind |-> "code", code |-> rule_id]

VerifiedInfo == [severity |-> "INFO", kind |-> "none", code |-> ""]

\* dqc_validation.py:326-329 (report_error) with the set built at line 1374
PythonReports(v, rule_id) ==
    LET suppress_errors == {Strip(ParseSuppressErrors(v)[i]) : i \in DOMAIN ParseSuppressErrors(v)}
    IN  ~(rule_id \in suppress_errors \/ RuleFamily(rule_id) \in suppress_errors)

\* dqc_validation_xule.py:150-152
XuleReports(v, rule_id) ==
    LET suppress_errors == ParseSuppressErrors(v)
    IN  \/ Len(suppress_errors) = 0
        \/ rule_id \in {suppress_errors[i] : i \in DOMAIN suppress_errors}

Reports(v, rule_id) ==
    IF v.validator = "python" THEN PythonReports(v, rule_id) ELSE XuleReports(v, rule_id)

RECURSIVE ValidateFrom(_, _, _)
ValidateFrom(v, i, log) ==
    IF i > Len(v.findings) THEN log
    ELSE ValidateFrom(v, i + 1,
            IF Reports(v, v.findings[i]) THEN Append(log, RuleError(v.findings[i])) ELSE log)

ValidateLog(v) == ValidateFrom(v, 1, <<VerifiedInfo>>)

ValidateInputs ==
    [validator : {"python", "xule"}, given : {FALSE}, codes : {<<>>},
     findings : SeqsUpTo(RuleIds, MaxFindings)]
    \cup
    [validator : {"python", "xule"}, given : {TRUE},
     codes : SeqsUpTo(SuppressTokens, MaxSuppressed) \ {<<>>},
     findings : SeqsUpTo(RuleIds, MaxFindings)]

InitValidate ==
    /\ harness = "dqc"
    /\ cv \in ValidateInputs
    /\ cres = NoVariation
    /\ cstored = NoVariation
    /\ cpc = "input"
    /\ pc = "idle"
    /\ testsuite = <<>>
    /\ args = NoVariation
    /\ si = 0
    /\ futures = <<>>
    /\ results = <<>>
    /\ report = <<>>

Validate ==
    /\ cpc = "input"
    /\ cres' = [log |-> ValidateLog(cv)]
    /\ cpc' = "validated"
    /\ UNCHANGED <<harness, cv, cstored>>
    /\ UNCHANGED schedVars

\* dqc_testsuite.py:225-236: the harness hands blockedMessageCodes to the
\* Python-rule validator and builds the fingerprint from the log
Fingerprint ==
    /\ cpc = "validated"
    /\ cv.validator = "python"
    /\ cstored' = DqcErrorCounts(cres.log)
    /\ cpc' = "fingerprinted"
    /\ UNCHANGED <<harness, cv, cres>>
    /\ UNCHANGED schedVars

NextValidate == Validate \/ Fingerprint

SpecValidate == InitValidate /\ [][NextValidate]_vars

----------------------------------------------------------------------------
(* SpecEscape: xml_escape on the name of a testcase or of a variation, as  *)
(* the xml report writer calls it (efm_testsuite.py:529, 534,              *)
(* dqc_testsuite.py:330).  A string is the sequence of its characters.     *)

Chars == {"<", "&", "\"", "a", ";"}

Names == SeqsUpTo(Chars, MaxChars)

RECURSIVE Flatten(_)
Flatten(parts) == IF parts = <<>> THEN <<>> ELSE Head(parts) \o Flatten(Tail(parts))

\* str.replace(old, new) for a pattern of one character
Replace(str, old, new) ==
    Flatten([n \in DOMAIN str |-> IF str[n] = old THEN new ELSE <<str[n]>>])

EntityLt == <<"&", "l", "t", ";">>

EntityAmp == <<"&", "a", "m", "p", ";">>

EntityQuot == <<"&", "q", "u", "o", "t", ";">>

\* efm_testsuite.py:512-513, dqc_testsuite.py:308-309,
\* dqc_testsuite_xule_travis.py:320-321
xml_escape(str) ==
    Replace(Replace(Replace(str, "<", EntityLt), "&", EntityAmp), "\"", EntityQuot)

InitEscape ==
    /\ harness \in Harnesses
    /\ cv \in [name : Names]
    /\ cres = NoVariation
    /\ cstored = NoVariation
    /\ cpc = "input"
    /\ pc = "idle"
    /\ testsuite = <<>>
    /\ args = NoVariation
    /\ si = 0
    /\ futures = <<>>
    /\ results = <<>>
    /\ report = <<>>

\* name="{}" formatted with xml_escape(variation['name'])
Escape ==
    /\ cpc = "input"
    /\ cres' = [value |-> xml_escape(cv.name)]
    /\ cpc' = "escaped"
    /\ UNCHANGED <<harness, cv, cstored>>
    /\ UNCHANGED schedVars

NextEscape == Escape

SpecEscape == InitEscape /\ [][NextEscape]_vars

----------------------------------------------------------------------------
(* Properties of the run (Spec).                                           *)

\* execute_testsuite has returned
Returned == pc = "report" \/ (pc = "ended" /\ report.aborted \in {"", "report"})

SubmittedKeys == {Key(testsuite[i]) : i \in Submitted}

DistinctKeys == Cardinality(SubmittedKeys) = Cardinality(Submitted)

\* C1 as stated: after execute_testsuite returns, results has as many
\* entries as variations were submitted and every submitted identity is a
\* key, for any list of variations.
C1_OneEntryPerSubmitted ==
    Returned =>
        /\ Cardinality(DOMAIN results) = Cardinality(Submitted)
        /\ SubmittedKeys \subseteq DOMAIN results

\* C1 amended: after execute_testsuite returns, the keys of results are
\* exactly the identities of the submitted variations; the number of
\* entries is the number of distinct identities, which is the number of
\* submitted variations when no two of them share an identity.
C1_OneEntryPerIdentity ==
    Returned =>
        /\ DOMAIN results = SubmittedKeys
        /\ DistinctKeys => Cardinality(DOMAIN results) = Cardinality(Submitted)

C1_Witness ==
    /\ Returned
    /\ Cardinality(Submitted) = 2
    /\ DistinctKeys
    /\ Cardinality(DOMAIN results) = 2

\* C2: the round of the collecting loop that takes a finished future stores
\* 'EXCEPTION' under its key when its callback raised and the status the
\* callback returned otherwise; it touches no other entry and no other
\* future, and the loop goes on (the exception does not leave
\* execute_testsuite).
C2_FaultIsolation ==
    [][\A i \in DOMAIN futures :
          (futures[i].st = "finished" /\ i \in DOMAIN futures' /\ futures'[i].st = "collected") =>
              /\ Key(testsuite[i]) \in DOMAIN results'
              /\ results'[Key(testsuite[i])] =
                    IF futures[i].out.raised THEN "EXCEPTION" ELSE futures[i].out.status
              /\ \A k \in DOMAIN results :
                    k # Key(testsuite[i]) => (k \in DOMAIN results' /\ results'[k] = results[k])
              /\ \A j \in DOMAIN futures : j # i => futures'[j] = futures[j]
              /\ pc' = "collect"]_vars

C2_Witness ==
    /\ Returned
    /\ \E i \in Collected, j \in Collected :
          /\ Key(testsuite[i]) # Key(testsuite[j])
          /\ futures[i].out.raised
          /\ results[Key(testsuite[i])] = "EXCEPTION"
          /\ ~futures[j].out.raised
          /\ results[Key(testsuite[j])] = futures[j].out.status
          /\ futures[j].out.status = "PASS"

\* C3: a run whose suite (and, for xule, catalog) could be loaded ends with
\* a complete report, whatever the filters select and whatever the
\* callbacks did.
C3_AlwaysReports ==
    (pc = "ended" /\ report.aborted \notin {"index", "testcase", "setup"}) =>
        (report.aborted = "" /\ report.written # {})

\* C4: at most max_workers callbacks are executing at any moment.
C4_BoundedWorkers == Cardinality(Running) <= args.max_workers

C4_Witness ==
    /\ Cardinality(Running) = args.max_workers
    /\ Pending # {}

\* C5: when the report part starts (and ever after), every submitted
\* variation has finished, has been collected and has its entry in results.
C5_ReportAfterJoin ==
    (pc = "report" \/ (pc = "ended" /\ (report.aborted = "report" \/ report.written # {}))) =>
        \A i \in Submitted :
            futures[i].st = "collected" /\ Key(testsuite[i]) \in DOMAIN results

C5_Witness ==
    /\ pc = "ended"
    /\ report.written # {}
    /\ Cardinality(Submitted) = 2

SixVerdicts ==
    {"PASS", "FAIL", "SKIP", "OUTPUT MISMATCH", "INVALID NUMBER OF EVALUATIONS", "EXCEPTION"}

\* C6 as stated: every verdict stored in results is one of the six verdicts.
C6_SixVerdicts == \A k \in DOMAIN results : results[k] \in SixVerdicts

HarnessVerdicts(h) ==
    IF h = "dqc" THEN {"PASS", "FAIL", "EXCEPTION"}
    ELSE IF h = "efm" THEN {"PASS", "FAIL", "SKIP", "OUTPUT MISMATCH", "EXCEPTION"}
    ELSE {"PASS", "INVALID NUMBER OF EVALUATIONS", "INVALID LINE LOCATION", "INVALID",
          "EXCEPTION"}

\* C6 amended: every verdict stored in results is one of PASS, FAIL, SKIP,
\* OUTPUT MISMATCH, INVALID NUMBER OF EVALUATIONS, INVALID LINE LOCATION,
\* INVALID, EXCEPTION; dqc stores PASS, FAIL or EXCEPTION, efm adds SKIP and
\* OUTPUT MISMATCH, xule stores PASS, the three INVALID verdicts or EXCEPTION.
C6_EightVerdicts == \A k \in DOMAIN results : results[k] \in HarnessVerdicts(harness)

C6_Witness ==
    /\ harness = "xule"
    /\ \E k \in DOMAIN results : results[k] = "INVALID LINE LOCATION"
    /\ \E k \in DOMAIN results : results[k] = "INVALID NUMBER OF EVALUATIONS"

----------------------------------------------------------------------------
(* Properties of execute_variation (SpecClassify).                         *)

Classified == cpc \in {"classified", "stored"}

\* the callback got as far as the diagnostic check and returned
Checked == Classified /\ ~cres.raised /\ cres.validated

\* the diagnostic check ended with passed = True (in efm the verdict is
\* then PASS or, after the output comparison, OUTPUT MISMATCH)
DiagPassed(r) == r.status \in {"PASS", "OUTPUT MISMATCH"}

NoErrorsLogged(log) == Cardinality({i \in DOMAIN log : log[i].severity = "ERROR"}) = 0

\* how often the log holds an error-severity diagnostic with this code
DqcObserved(log, code) ==
    Cardinality({i \in DOMAIN log :
        log[i].severity = "ERROR" /\ log[i].kind = "code" /\ log[i].code = code})

DqcMatches(v) == \A code \in DOMAIN v.errors : DqcObserved(v.log, code) = v.errors[code]

EfmSeverity(s) == IF s = "ERROR" THEN "err" ELSE IF s = "WARNING" THEN "wrn" ELSE "-"

\* how often a diagnostic with this number was observed under this severity
EfmObserved(v, severity, num) ==
    IF v.ixbrl = "errors" THEN (IF severity = "err" /\ num = "99999" THEN 1 ELSE 0)
    ELSE IF v.ixbrl = "warnings" THEN (IF severity = "wrn" /\ num = "99999" THEN 1 ELSE 0)
    ELSE Cardinality({i \in DOMAIN v.log :
            /\ EfmSeverity(v.log[i].severity) = severity
            /\ v.log[i].kind = "code"
            /\ EfmFormatCode(v.log[i].code) = num})

EfmExpectedNums(v) == {v.asserts[i].num : i \in DOMAIN v.asserts}

EfmExpectedCount(v, num) == Cardinality({i \in DOMAIN v.asserts : v.asserts[i].num = num})

\* every expected assert was observed at least once under its severity
EfmAllObserved(v) ==
    \A i \in DOMAIN v.asserts : EfmObserved(v, v.asserts[i].severity, v.asserts[i].num) >= 1

EfmErrorExpected(v) == \E i \in DOMAIN v.asserts : v.asserts[i].severity = "err"

\* C7 as stated: with at least one expected code, the diagnostic check
\* passes iff for every expected code the observed count equals the
\* expected count, in dqc and in efm (where a code is expected as often as
\* asserts name it).
C7_CountEquality ==
    Checked =>
        IF harness = "dqc"
        THEN DOMAIN cv.errors # {} => (cres.status = "PASS" <=> DqcMatches(cv))
        ELSE IF harness = "efm"
        THEN cv.asserts # <<>> =>
                (DiagPassed(cres) <=>
                    \A num \in EfmExpectedNums(cv) :
                        CounterGet(cres.counts, num) = EfmExpectedCount(cv, num))
        ELSE TRUE

\* C7 amended: with at least one expected code, in dqc the verdict is PASS
\* iff for every expected code the number of error-severity diagnostics
\* with that code equals the expected count, and FAIL otherwise; in efm
\* the diagnostic check passes iff every expected assert was observed at
\* least once under its severity and, when no expected assert has
\* severity err, the log holds no error.
C7_DqcCountsEfmPresence ==
    Checked =>
        IF harness = "dqc"
        THEN DOMAIN cv.errors # {} =>
                /\ cres.status \in {"PASS", "FAIL"}
                /\ cres.status = "PASS" <=> DqcMatches(cv)
        ELSE IF harness = "efm"
        THEN cv.asserts # <<>> =>
                /\ cres.status \in {"PASS", "FAIL", "OUTPUT MISMATCH"}
                /\ DiagPassed(cres) <=>
                      /\ EfmAllObserved(cv)
                      /\ EfmErrorExpected(cv) \/ NoErrorsLogged(cv.log)
        ELSE TRUE

C7_Witness ==
    /\ harness = "dqc"
    /\ Checked
    /\ cres.status = "FAIL"
    /\ \E code \in DOMAIN cv.errors : cv.errors[code] = 2 /\ DqcObserved(cv.log, code) = 1

\* C8 as stated: with no expected code, the verdict is FAIL when the
\* fingerprint counts any diagnostic and PASS when it counts none.
C8_AnyDiagnosticFails ==
    (Checked /\ harness \in {"dqc", "efm"}) =>
        LET empty == IF harness = "dqc" THEN DOMAIN cv.errors = {} ELSE cv.asserts = <<>>
        IN  empty =>
              /\ DOMAIN cres.counts # {} => cres.status = "FAIL"
              /\ DOMAIN cres.counts = {} => DiagPassed(cres)

\* C8 amended: with no expected code, the diagnostic check fails iff the
\* log holds an error-severity diagnostic; in dqc that is iff the
\* fingerprint is not empty, in efm warnings are counted into the
\* fingerprint and leave the check passed.
C8_AnyErrorFails ==
    (Checked /\ harness \in {"dqc", "efm"}) =>
        LET empty == IF harness = "dqc" THEN DOMAIN cv.errors = {} ELSE cv.asserts = <<>>
        IN  empty =>
              /\ cres.status = "FAIL" <=> ~NoErrorsLogged(cv.log)
              /\ DiagPassed(cres) <=> NoErrorsLogged(cv.log)
              /\ harness = "dqc" => (DOMAIN cres.counts = {} <=> NoErrorsLogged(cv.log))

C8_Witness ==
    /\ harness = "efm"
    /\ Checked
    /\ cv.asserts = <<>>
    /\ DOMAIN cres.counts # {}
    /\ cres.status = "PASS"

\* the diagnostics whose code is outside the expected set
DqcExtras(v) == {d \in DqcDiags : d.kind = "none" \/ d.code \notin DOMAIN v.errors}

EfmExtras(v) ==
    {d \in EfmDiags :
        \/ d.kind = "none"
        \/ d.kind = "code" /\ EfmFormatCode(d.code) \notin EfmExpectedNums(v)}

WithExtra(v, d) == [v EXCEPT !.log = Append(@, d)]

NonEmptyExpectation(h, v) ==
    IF h = "dqc" THEN DOMAIN v.errors # {} ELSE v.asserts # <<>>

Extras(h, v) == IF h = "dqc" THEN DqcExtras(v) ELSE EfmExtras(v)

\* C9 as stated: with a non-empty expectation whose codes all match (the
\* verdict is PASS), the verdict stays PASS when a further diagnostic with
\* a code outside the expected set is observed, of whatever severity.
C9_ExtrasNeverFail ==
    (Checked /\ harness \in {"dqc", "efm"}) =>
        ((NonEmptyExpectation(harness, cv) /\ cres.status = "PASS") =>
            \A d \in Extras(harness, cv) :
                ExecuteVariation(harness, WithExtra(cv, d)).status = "PASS")

\* C9 amended: with a non-empty expectation whose diagnostic check passed,
\* the verdict stays what it is when a further diagnostic with a code
\* outside the expected set is observed: of whatever severity in dqc, and
\* in efm provided an expected assert has severity err or the further
\* diagnostic is not an error.
C9_ExtrasKeepPass ==
    (Checked /\ harness \in {"dqc", "efm"}) =>
        ((NonEmptyExpectation(harness, cv) /\ DiagPassed(cres)) =>
            \A d \in Extras(harness, cv) :
                (harness = "dqc" \/ EfmErrorExpected(cv) \/ d.severity # "ERROR") =>
                    LET r == ExecuteVariation(harness, WithExtra(cv, d))
                    IN  ~r.raised /\ r.status = cres.status)

C9_Witness ==
    /\ harness = "dqc"
    /\ Checked
    /\ DOMAIN cv.errors # {}
    /\ cres.status = "PASS"
    /\ \E code \in DOMAIN cres.counts : code \notin DOMAIN cv.errors

\* skip-eligible: more than one input instance, or an expected assert
\* numbered 60302 or 60310
SkipEligible(v) ==
    \/ v.data /\ v.instances > 1
    \/ v.hasResult /\ \E i \in DOMAIN v.asserts : v.asserts[i].num \in {"60302", "60310"}

Skipped(r) ==
    /\ ~r.raised
    /\ r.status = "SKIP"
    /\ r.counts = EmptyCounter
    /\ ~r.validated

\* C10 as stated: a skip-eligible variation gets SKIP with an empty
\* fingerprint, before the validator is invoked, whatever its other fields.
C10_SkipAlways ==
    (Classified /\ harness = "efm" /\ SkipEligible(cv)) => Skipped(cres)

\* the diagnostic check of efm_testsuite.py:427-430 on this variation
EfmDiagnosticCheck(v) ==
    /\ EfmAllObserved(v)
    /\ EfmErrorExpected(v) \/ NoErrorsLogged(v.log)

\* C11: in efm the verdict is OUTPUT MISMATCH exactly when the diagnostic
\* check passed, the validator left an instance, the result names a
\* reference instance, that reference was loaded and cmp_output of the two
\* is False; cmp_output is called only when the diagnostic check passed,
\* and a failed check always gives FAIL.
C11_MismatchOnlyAfterPass ==
    (Checked /\ harness = "efm") =>
        /\ cres.status = "OUTPUT MISMATCH" <=>
              /\ EfmDiagnosticCheck(cv)
              /\ ~cv.instNone
              /\ cv.refInstance
              /\ cv.refLoads
              /\ ~cv.cmpEq
        /\ cres.compared => EfmDiagnosticCheck(cv)
        /\ ~EfmDiagnosticCheck(cv) => (cres.status = "FAIL" /\ ~cres.compared)

C11_Witness ==
    /\ harness = "efm"
    /\ Checked
    /\ cres.status = "OUTPUT MISMATCH"
    /\ cres.compared
    /\ cv.asserts # <<>>
    /\ cv.log # <<>>

\* C12: in xule, when load_instance, xp.execute and load_results do not
\* raise, the callback returns; the verdict is INVALID NUMBER OF EVALUATIONS
\* whenever the produced and the expected set differ in size, and PASS
\* exactly when the two sets are equal.
C12_ResultCount ==
    (Classified /\ harness = "xule" /\ ~cv.raises) =>
        /\ ~cres.raised
        /\ Cardinality(cv.actual) # Cardinality(cv.expected) =>
              cres.status = "INVALID NUMBER OF EVALUATIONS"
        /\ cres.status = "PASS" <=> cv.actual = cv.expected

C12_Witness ==
    /\ harness = "xule"
    /\ Classified
    /\ Cardinality(cv.actual) = 2
    /\ Cardinality(cv.expected) = 1
    /\ cv.expected \subseteq cv.actual
    /\ cres.status = "INVALID NUMBER OF EVALUATIONS"

\* the variation reaches the loop that builds the fingerprint
ReachesFingerprint(h, v) ==
    /\ v.data /\ v.entry /\ v.hasResult /\ ~v.raises
    /\ h = "efm" => (~EfmSkipInstances(v) /\ ~EfmSkipAsserts(v))

SeverityFilter(h) == IF h = "dqc" THEN {"ERROR"} ELSE {"ERROR", "WARNING"}

\* the sum of all counts of a histogram
RECURSIVE CounterTotal(_)
CounterTotal(c) ==
    IF DOMAIN c = {} THEN 0
    ELSE LET k == CHOOSE x \in DOMAIN c : TRUE
         IN  c[k] + CounterTotal([x \in (DOMAIN c) \ {k} |-> c[x]])

\* C13: in dqc and efm, building the fingerprint never raises, and the sum
\* of its counts is the number of diagnostics of the log whose severity is
\* in the filter (ERROR in dqc, ERROR and WARNING in efm).
C13_CountsEveryDiagnostic ==
    (Classified /\ harness \in {"dqc", "efm"} /\ ReachesFingerprint(harness, cv)) =>
        /\ ~cres.raised
        /\ CounterTotal(cres.counts) =
              Cardinality({i \in DOMAIN cv.log : cv.log[i].severity \in SeverityFilter(harness)})

----------------------------------------------------------------------------
(* Properties of calc_conformance (SpecReport).                            *)

Reported == pc = "ended" /\ report.aborted = ""

\* C15: for a non-empty result set calc_conformance returns total = number
\* of results, skipped = number of SKIP verdicts, failed = number of
\* verdicts that are neither PASS nor SKIP, and conformance =
\* (total - failed) * 100 / total (to the hundredth the reports print); for
\* 10 results with 3 failing and 1 SKIP that is total 10, failed 3,
\* conformance 70.00.
C15_Conformance ==
    (Reported /\ Cardinality(DOMAIN results) > 0) =>
        /\ report.total = Cardinality(DOMAIN results)
        /\ report.skipped = Cardinality({k \in DOMAIN results : results[k] = "SKIP"})
        /\ report.failed =
              Cardinality({k \in DOMAIN results : results[k] \notin {"PASS", "SKIP"}})
        /\ LET exact == (report.total - report.failed) * 10000
               shown == report.conformance * report.total
           IN  2 * (shown - exact) <= report.total /\ 2 * (exact - shown) <= report.total
        /\ (report.total = 10 /\ report.failed = 3 /\ report.skipped = 1) =>
              report.conformance = 7000

C15_Witness ==
    /\ harness = "efm"
    /\ Reported
    /\ Cardinality(DOMAIN results) = 10
    /\ \A verdict \in {"FAIL", "OUTPUT MISMATCH", "EXCEPTION", "SKIP"} :
          Cardinality({k \in DOMAIN results : results[k] = verdict}) = 1
    /\ report.total = 10
    /\ report.failed = 3
    /\ report.skipped = 1
    /\ report.conformance = 7000

\* C16: for an empty result set calc_conformance raises nothing and
\* returns total 0, failed 0 and conformance 100, in every harness, so the
\* report is written.
C16_EmptyIsFullConformance ==
    (pc = "ended" /\ Cardinality(DOMAIN results) = 0) =>
        /\ report.aborted = ""
        /\ report.written # {}
        /\ report.total = 0
        /\ report.failed = 0
        /\ report.conformance = 10000

----------------------------------------------------------------------------
(* Properties of the canonical form (SpecHash).                            *)

Compared == cpc = "compared" /\ ~cres.raised

\* the references the hashed content of a document holds: those of every
\* child of the root that is not itself an auxiliary element
ContentRefs(doc) ==
    UNION {ElementRefs(doc[i]) : i \in {j \in DOMAIN doc : ~IsAux(doc[j])}}

Referenced(doc, i) == AuxKey(doc[i]) \in ContentRefs(doc)

C18_DuplicatesDistinct ==
    (/\ Compared
     /\ cv.change = "copies"
     /\ (IsAux(cv.left[cv.at]) => Referenced(cv.left, cv.at)))
    => (cres.left # cres.right /\ ~cres.equal)

C21_LabelsCarryNoMeaning ==
    (Compared /\ cv.change \in {"relabel", "attrs"} /\ cv.left # cv.right)
    => (cres.left = cres.right /\ cres.conformance = "PASS")

\* the part of C21 that holds: the canonical forms have the same members
C21_SameCanonicalForm ==
    (Compared /\ cv.change \in {"relabel", "attrs"} /\ cv.left # cv.right)
    => cres.left = cres.right

----------------------------------------------------------------------------
(* Properties of loading and reporting (Spec).                             *)

\* C22: a testcase file that cannot be loaded only takes its own variations
\* out of the run: the run is not aborted by it, the remaining testcases
\* are executed and a report is produced for them.
C22_UnloadableTestcaseIsSkipped ==
    (pc = "ended" /\ report.aborted = "testcase") => report.written # {}

----------------------------------------------------------------------------
(* Further properties of execute_variation (SpecClassify).                 *)

\* a variation whose expectation holds neither expected codes nor a
\* reference document (parse_variation sets variation['result'] only for a
\* <result> element and accepts one without children)
Malformed(h, v) ==
    /\ h \in {"dqc", "efm"}
    /\ \/ ~v.hasResult
       \/ h = "efm" /\ v.asserts = <<>> /\ ~v.refInstance
       \/ h = "dqc" /\ v.errors = EmptyCounter

\* C23: a variation with a malformed expectation is rejected when it is
\* loaded: it is never handed to execute_variation and never gets an
\* execution verdict such as EXCEPTION.
C23_MalformedNeverExecuted ==
    Malformed(harness, cv) => cpc = "input"

----------------------------------------------------------------------------
(* Properties of validate (SpecValidate).                                  *)

\* the codes listed in the suppressErrors parameter; a diagnostic is listed
\* with its own code or with the code of its rule
Listed(v, rule_id) ==
    LET listed == {Strip(v.codes[i]) : i \in DOMAIN v.codes}
    IN  v.given /\ (rule_id \in listed \/ RuleFamily(rule_id) \in listed)

LogCodes(log) == {log[i].code : i \in {j \in DOMAIN log : log[j].kind = "code"}}

\* C24: a diagnostic whose code is listed in suppressErrors is never added
\* to the error log, in both validators, a diagnostic whose code is not
\* listed is reported, and a listed code never appears in the fingerprint.
C24_SuppressedNeverReported ==
    /\ cpc \in {"validated", "fingerprinted"} =>
          \A i \in DOMAIN cv.findings :
             (cv.findings[i] \in LogCodes(cres.log)) <=> ~Listed(cv, cv.findings[i])
    /\ cpc = "fingerprinted" =>
          \A code \in DOMAIN cstored : ~Listed(cv, code)

\* the part of C24 that holds: the Python-rule validator and the dqc
\* fingerprint built from its log
C24_PythonValidator ==
    cv.validator = "python" => C24_SuppressedNeverReported

----------------------------------------------------------------------------
(* Further properties of the run (Spec).                                   *)

\* a round of the collecting loop takes future i
Collects(i) ==
    /\ i \in DOMAIN futures
    /\ futures[i].st = "finished"
    /\ i \in DOMAIN futures'
    /\ futures'[i].st = "collected"

\* results changes only in a round of the collecting loop of the main thread
OnlyCollectorWrites ==
    results' # results => (pc = "collect" /\ \E i \in DOMAIN futures : Collects(i))

\* C25 as stated: no entry of results is ever overwritten: every round of
\* the collecting loop assigns a key that is not yet in results, for any
\* list of submitted variations, and only the collecting thread writes.
C25_WriteOnce ==
    [][/\ OnlyCollectorWrites
       /\ \A i \in DOMAIN futures :
             Collects(i) => Key(testsuite[i]) \notin DOMAIN results]_vars

\* C25 amended: only the collecting thread writes to results, and a round
\* of the collecting loop assigns a key that is already in results exactly
\* when a variation with the same identity was collected before; with
\* pairwise distinct identities every key is assigned once.
C25_WriteOncePerIdentity ==
    [][/\ OnlyCollectorWrites
       /\ \A i \in DOMAIN futures :
             Collects(i) =>
                (Key(testsuite[i]) \in DOMAIN results
                   <=> \E j \in DOMAIN futures :
                          /\ j # i
                          /\ futures[j].st = "collected"
                          /\ Key(testsuite[j]) = Key(testsuite[i]))]_vars

C25_Witness ==
    /\ Returned
    /\ \E i \in Collected, j \in Collected :
          /\ i # j
          /\ Key(testsuite[i]) = Key(testsuite[j])
          /\ futures[i].out.status # futures[j].out.status
    /\ Cardinality(DOMAIN results) = 1

\* the results of the run of the same suite with the same callback outcomes
\* in which the futures complete in the order of the list
ListOrderResults ==
    [k \in SubmittedKeys |->
        StoredStatus(futures[CHOOSE i \in Submitted :
                                /\ Key(testsuite[i]) = k
                                /\ \A j \in Submitted : Key(testsuite[j]) = k => j <= i].out)]

ReportWritten == pc = "ended" /\ report.written # {}

SameReportAsListOrder ==
    /\ [n \in DOMAIN report.rows |-> report.rows[n].key]
          = [n \in DOMAIN SelectSeq(testsuite, Selected) |->
                Key(SelectSeq(testsuite, Selected)[n])]
    /\ report.rows = ReportRows(ListOrderResults)
    /\ report.total = CalcConformance(harness, ListOrderResults).total
    /\ report.failed = CalcConformance(harness, ListOrderResults).failed
    /\ report.skipped = CalcConformance(harness, ListOrderResults).skipped
    /\ report.conformance = CalcConformance(harness, ListOrderResults).conformance

\* C26 as stated: the report does not depend on the completion order: for
\* any suite and fixed callback outcomes, every run writes the rows, in the
\* order of the original list, the verdicts and the totals that the run
\* completing in list order writes.
C26_ReportIgnoresCompletionOrder ==
    ReportWritten => SameReportAsListOrder

\* C26 amended: the same, for a suite in which the submitted variations
\* have pairwise distinct identity keys; the rows are always in the order
\* of the original list.
C26_ReportIgnoresOrderOfDistinctKeys ==
    ReportWritten =>
        /\ DistinctKeys => SameReportAsListOrder
        /\ [n \in DOMAIN report.rows |-> report.rows[n].key]
              = [n \in DOMAIN SelectSeq(testsuite, Selected) |->
                    Key(SelectSeq(testsuite, Selected)[n])]

C26_Witness ==
    /\ ReportWritten
    /\ DistinctKeys
    /\ Len(report.rows) = 2
    /\ report.rows[1].status # report.rows[2].status
    /\ report.total = 2

----------------------------------------------------------------------------
(* Further properties of the canonical form (SpecHash).                    *)

\* the canonical form of the element whose text was set
TextForm == HashElement(cv.right[cv.at])

\* C27: canonicalizing a childless element never raises, for every text:
\* a text that looks like markup but does not parse gives the trimmed raw
\* text, and a text whose numeric parse fails gives the trimmed string.
C27_LeafNeverRaises ==
    (cpc = "compared" /\ cv.change = "text") =>
        /\ ~cres.raised
        /\ TextForm \in cres.right
        /\ (MarkupLike(cv.right[cv.at].text) /\ ParseErrors(cv.right[cv.at].text))
              => (TextForm.text = TrimText(cv.right[cv.at].text) /\ TextForm.kids = {})
        /\ (LeafBranch(cv.right[cv.at]) = "text" /\ FloatRaises(TrimText(cv.right[cv.at].text)))
              => (TextForm.text = TrimText(cv.right[cv.at].text) /\ TextForm.kids = {})

C27_Witness ==
    /\ cpc = "compared"
    /\ cv.change = "text"
    /\ cv.right[cv.at].text = " </b "
    /\ cv.right[cv.at].typed
    /\ ~cres.raised
    /\ \E e \in cres.right : e.name = "Item" /\ e.text = "</b"

----------------------------------------------------------------------------
(* Properties of the filters (Spec).                                       *)

\* the filters as the command line states them
FilterAdmits(variation) ==
    /\ (args.testcase_numbers = {} \/ variation.tc \in args.testcase_numbers)
    /\ (args.variation_ids = {} \/ variation.id \in args.variation_ids)

\* the variations the submit loop has been through
Visited == {i \in DOMAIN futures : futures[i].st # "new"}

RowKeys == {report.rows[n].key : n \in DOMAIN report.rows}

\* C28: a variation is submitted iff the testcase filter is absent or empty or
\* holds its testcase, and the variation filter is absent or empty or holds
\* its id; a variation that was not submitted has no entry in results, is
\* not counted in total and has no row in a report.
C28_FilterDecidesSubmission ==
    /\ \A i \in Visited : (i \in Submitted) <=> FilterAdmits(testsuite[i])
    /\ \A i \in DOMAIN futures :
          ~FilterAdmits(testsuite[i]) =>
              /\ futures[i].st \in {"new", "unselected"}
              /\ Key(testsuite[i]) \notin DOMAIN results
              /\ Key(testsuite[i]) \notin RowKeys
    /\ (pc = "ended" /\ report.aborted \in {"", "report"}) =>
          report.total = Cardinality({Key(testsuite[i]) : i \in Submitted})

C28_Witness ==
    /\ pc = "ended"
    /\ report.written # {}
    /\ \E i \in DOMAIN futures : ~FilterAdmits(testsuite[i])
    /\ \E i \in DOMAIN futures : FilterAdmits(testsuite[i]) /\ Key(testsuite[i]) \in RowKeys
    /\ report.total = 1

----------------------------------------------------------------------------
(* Properties of the report rows (SpecClassify).                           *)

\* C29: the row of a PASS result carries the note on additional errors
\* exactly when an observed code is not among the expected codes, whatever
\* the expectation, expected counts of 0 and repeated expected codes
\* included.
C29_NoteIffAdditionalCode ==
    (cpc = "row" /\ ~report.raised /\ report.status = "PASS") =>
        (report.note <=> AdditionalErrors(harness, cv, cstored[2]) # {})

----------------------------------------------------------------------------
(* Properties of xml_escape (SpecEscape).                                  *)

\* str[i..] starts with the characters of entity
StartsAt(str, i, entity) ==
    /\ i + Len(entity) - 1 <= Len(str)
    /\ \A n \in DOMAIN entity : str[i + n - 1] = entity[n]

\* one pass over str that reads &lt; as <, &amp; as & and &quot; as "
RECURSIVE UnescapeFrom(_, _)
UnescapeFrom(str, i) ==
    IF i > Len(str) THEN <<>>
    ELSE IF StartsAt(str, i, EntityLt) THEN <<"<">> \o UnescapeFrom(str, i + Len(EntityLt))
    ELSE IF StartsAt(str, i, EntityAmp) THEN <<"&">> \o UnescapeFrom(str, i + Len(EntityAmp))
    ELSE IF StartsAt(str, i, EntityQuot) THEN <<"\"">> \o UnescapeFrom(str, i + Len(EntityQuot))
    ELSE <<str[i]>> \o UnescapeFrom(str, i + 1)

Unescape(str) == UnescapeFrom(str, 1)

\* C30: for every name, reading the entities of xml_escape(name) once gives
\* the name back, the escaped name holds no raw < and no raw ", and < is
\* written &lt;.
C30_EscapeIsFaithful ==
    cpc = "escaped" =>
        /\ Unescape(cres.value) = cv.name
        /\ \A n \in DOMAIN cres.value : cres.value[n] \notin {"<", "\""}
        /\ (cv.name = <<"<">> => cres.value = EntityLt)

====
